---- MODULE Spec2Model ----
\* Model of Task_Management_App/main.py: the pydantic Task model, the
\* TaskManager store (a Python dict, insertion ordered, holding references to
\* Task objects) and the handlers of the Streamlit page in main().
\*
\* Python objects have identity: `heap` is the sequence of all Task objects
\* constructed so far (an object reference is an index into it), and the
\* store maps keys to references, so that a Task object stored under two keys
\* is one object.  uuid4() is modelled as collision free: the n-th object
\* constructed gets the id n.
EXTENDS Integers, Sequences, FiniteSets, Bags, TLC

\* ---------------------------------------------------------------- bounds
MaxObjs == 2        \* Task objects constructed in one behaviour
MaxCalls == 7       \* constructor calls, method calls and page events in one behaviour

\* ---------------------------------------------------------------- inputs
None == <<"None">>
SP == " "

\* date.today(): the clock does not advance within a behaviour
today == 1

\* Arguments <<title, due_date, priority>> given to the Task constructor:
\* an ordinary task due today, a whitespace title with yesterday's date and
\* the highest priority, and arguments with an empty title or with a
\* priority just outside 1..5
TaskInputs ==
    { << <<"a">>, today, 1 >>,
      << <<SP, SP, SP>>, today - 1, 5 >>,
      << <<>>, today, 1 >>,
      << <<"a">>, today, 0 >>,
      << <<"a">>, today - 1, 6 >>,
      << <<>>, today, 6 >> }

\* What the user enters in a form, <<title, description, due_date>>: the date
\* widget offers no date before today (min_value=date.today())
FormInputs ==
    { << <<"a">>, <<>>, today >>,
      << <<SP, SP, SP>>, <<"d">>, today + 1 >>,
      << <<>>, <<>>, today >> }
SliderDefault == 3                        \* st.slider(..., value=3), left as it is

VARIABLES
    heap,       \* Task objects: heap[o] is the record of fields of object o
    tasks,      \* TaskManager.tasks: sequence of [key, val] in insertion order
    edit,       \* st.session_state: [id |-> edit_task_id, task |-> edit_task], id = 0 when absent
    last,       \* the last call: [op, key, obj, ret, errs]
    result,     \* the list returned by the last call when it was get_all_tasks
    calls       \* number of calls made so far

vars == <<heap, tasks, edit, last, result, calls>>

\* ---------------------------------------------------------------- helpers
Objs == 1..Len(heap)
Range(s) == { s[i] : i \in 1..Len(s) }
Keys(t) == { t[i].key : i \in 1..Len(t) }
Values(t) == [ i \in 1..Len(t) |-> t[i].val ]
Pos(t, k) == CHOOSE i \in 1..Len(t) : t[i].key = k
Get(t, k) == t[Pos(t, k)].val
\* self.tasks[k] = o : a new key is appended, an existing key keeps its place
SetItem(t, k, o) ==
    IF k \in Keys(t)
    THEN [ i \in 1..Len(t) |-> IF t[i].key = k THEN [key |-> k, val |-> o] ELSE t[i] ]
    ELSE Append(t, [key |-> k, val |-> o])
\* del self.tasks[k]
DelItem(t, k) == SelectSeq(t, LAMBDA e : e.key # k)

\* str.strip()
RECURSIVE lstrip(_)
lstrip(s) == IF s # <<>> /\ Head(s) = SP THEN lstrip(Tail(s)) ELSE s
RECURSIVE rstrip(_)
rstrip(s) == IF s # <<>> /\ s[Len(s)] = SP THEN rstrip(SubSeq(s, 1, Len(s) - 1)) ELSE s
strip(s) == rstrip(lstrip(s))

\* ---------------------------------------------------------------- Task
\* The two classmethods of Task.  They carry no validator decorator, so
\* pydantic never calls them: construction applies the Field constraints only.
due_date_must_not_in_past(v, now) == v >= now
title_must_not_empty(v) == v # <<>> /\ strip(v) # <<>>

\* mutant of TaskErrors: the upper limit of priority off by one (le=6)
TaskErrors_le6(title, priority) ==
    (IF Len(title) >= 1 THEN {} ELSE {"title"})
    \cup (IF priority >= 1 /\ priority <= 6 THEN {} ELSE {"priority"})

\* Field(..., min_length=1) on title and Field(..., ge=1, le=5) on priority:
\* the set of fields the ValidationError reports (empty: construction succeeds)
TaskErrors(title, priority) ==
    (IF Len(title) >= 1 THEN {} ELSE {"title"})
    \cup (IF priority >= 1 /\ priority <= 5 THEN {} ELSE {"priority"})

\* The object Task(...) builds: fields are stored as given, id from uuid4()
TaskObj(newid, title, description, due_date, priority, completed) ==
    [ id |-> newid, title |-> title, description |-> description,
      due_date |-> due_date, priority |-> priority, completed |-> completed ]

Call(op, key, obj, ret, errs) ==
    [ op |-> op, key |-> key, obj |-> obj, ret |-> ret, errs |-> errs ]

\* one more call is made
Step ==
    /\ calls < MaxCalls
    /\ calls' = calls + 1

\* Task(title=..., description=..., due_date=..., priority=..., completed=...)
NewTask(title, description, due_date, priority, completed) ==
    LET errs == TaskErrors(title, priority) IN
    /\ Step
    /\ IF errs = {}
       THEN /\ Len(heap) < MaxObjs
            /\ heap' = Append(heap, TaskObj(Len(heap) + 1, title, description,
                                            due_date, priority, completed))
            /\ last' = Call("Task", 0, Len(heap) + 1, "ok", {})
       ELSE /\ UNCHANGED heap
            /\ last' = Call("Task", 0, 0, "ValidationError", errs)
    /\ result' = <<>>
    /\ UNCHANGED <<tasks, edit>>

\* ---------------------------------------------------------------- TaskManager
add_task(t, o, h) == SetItem(t, h[o].id, o)

AddTask(o) ==
    /\ Step
    /\ tasks' = add_task(tasks, o, heap)
    /\ last' = Call("add_task", heap[o].id, o, "None", {})
    /\ result' = <<>>
    /\ UNCHANGED <<heap, edit>>

\* mutant of update_task_heap: the id is assigned before the membership test
update_task_heap_early(t, h, k, o) == [ h EXCEPT ![o].id = k ]

\* mutant of update_task_store: the task is stored whether or not the id exists
update_task_store_upsert(t, k, o) == SetItem(t, k, o)

\* mutant of delete_task_store: removes by value, every entry holding the task
delete_task_store_by_value(t, k) ==
    IF k \in Keys(t) THEN SelectSeq(t, LAMBDA e : e.val # Get(t, k)) ELSE t

\* update_task: the heap and the store after the call, and the return value
update_task_heap(t, h, k, o) ==
    IF k \in Keys(t) THEN [ h EXCEPT ![o].id = k ] ELSE h
update_task_store(t, k, o) ==
    IF k \in Keys(t) THEN SetItem(t, k, o) ELSE t
update_task_ret(t, k) == k \in Keys(t)

delete_task_store(t, k) == IF k \in Keys(t) THEN DelItem(t, k) ELSE t
delete_task_ret(t, k) == k \in Keys(t)

mark_task_complete_heap(t, h, k) ==
    IF k \in Keys(t) THEN [ h EXCEPT ![Get(t, k)].completed = TRUE ] ELSE h
mark_task_complete_ret(t, k) == k \in Keys(t)

Str(b) == IF b THEN "True" ELSE "False"

UpdateTask(k, o) ==
    /\ Step
    /\ heap' = update_task_heap(tasks, heap, k, o)
    /\ tasks' = update_task_store(tasks, k, o)
    /\ last' = Call("update_task", k, o, Str(update_task_ret(tasks, k)), {})
    /\ result' = <<>>
    /\ UNCHANGED edit

DeleteTask(k) ==
    /\ Step
    /\ tasks' = delete_task_store(tasks, k)
    /\ last' = Call("delete_task", k, 0, Str(delete_task_ret(tasks, k)), {})
    /\ result' = <<>>
    /\ UNCHANGED <<heap, edit>>

MarkTaskComplete(k) ==
    /\ Step
    /\ heap' = mark_task_complete_heap(tasks, heap, k)
    /\ last' = Call("mark_task_complete", k, 0, Str(mark_task_complete_ret(tasks, k)), {})
    /\ result' = <<>>
    /\ UNCHANGED <<tasks, edit>>

\* sorted(values, key=due_date): stable, equal keys keep their input order
RECURSIVE insert(_, _, _)
insert(s, o, h) ==
    IF s = <<>> THEN <<o>>
    ELSE IF h[s[Len(s)]].due_date <= h[o].due_date THEN Append(s, o)
    ELSE Append(insert(SubSeq(s, 1, Len(s) - 1), o, h), s[Len(s)])
RECURSIVE sorted(_, _)
sorted(s, h) ==
    IF s = <<>> THEN <<>>
    ELSE insert(sorted(SubSeq(s, 1, Len(s) - 1), h), s[Len(s)], h)

get_all_tasks(t, h) == sorted(Values(t), h)

GetAllTasks ==
    /\ Step
    /\ result' = get_all_tasks(tasks, heap)
    /\ last' = Call("get_all_tasks", 0, 0, "list", {})
    /\ UNCHANGED <<heap, tasks, edit>>

\* ---------------------------------------------------------------- main()
NoEdit == [ id |-> 0, task |-> 0 ]
SliderValues == { SliderDefault }

\* "Add Task" submitted
SubmitAdd(title, description, due_date, priority) ==
    LET errs == TaskErrors(title, priority)
        o == Len(heap) + 1
        obj == TaskObj(o, title, IF description = <<>> THEN None ELSE description,
                       due_date, priority, FALSE) IN
    /\ Step
    /\ IF errs = {}
       THEN /\ Len(heap) < MaxObjs
            /\ heap' = Append(heap, obj)
            /\ tasks' = add_task(tasks, o, heap')
            /\ last' = Call("submit_add", o, o, "None", {})
       ELSE /\ UNCHANGED <<heap, tasks>>
            /\ last' = Call("submit_add", 0, 0, "ValidationError", errs)
    /\ result' = <<>>
    /\ UNCHANGED edit

\* "Save Changes" submitted in the edit form
SaveEdit(title, description, due_date, priority) ==
    LET errs == TaskErrors(title, priority)
        o == Len(heap) + 1
        obj == TaskObj(o, title, IF description = <<>> THEN None ELSE description,
                       due_date, priority, heap[edit.task].completed) IN
    /\ edit.id # 0
    /\ Step
    /\ IF errs = {}
       THEN /\ Len(heap) < MaxObjs
            /\ heap' = update_task_heap(tasks, Append(heap, obj), edit.id, o)
            /\ tasks' = update_task_store(tasks, edit.id, o)
            /\ edit' = NoEdit
            /\ last' = Call("save_edit", edit.id, o, Str(update_task_ret(tasks, edit.id)), {})
       ELSE /\ UNCHANGED <<heap, tasks, edit>>
            /\ last' = Call("save_edit", edit.id, 0, "ValidationError", errs)
    /\ result' = <<>>

\* The three buttons of a task are widgets keyed by the task's id
\* (complete_<id>, edit_<id>, delete_<id>).  The page renders the tasks in the
\* order of get_all_tasks() and a widget key may be used once: rendering stops
\* at the first listed task whose id an earlier listed task has, so a task has
\* buttons only when the ids listed up to and including it are all different.
HasButtons(l, i, h) ==
    \A j, k \in 1..i : h[l[j]].id = h[l[k]].id => j = k
Clickable(t, h) ==
    LET l == get_all_tasks(t, h) IN
    { l[i] : i \in { n \in 1..Len(l) : HasButtons(l, n, h) } }

ButtonComplete(o) ==
    /\ o \in Clickable(tasks, heap)
    /\ MarkTaskComplete(heap[o].id)

ButtonEdit(o) ==
    /\ o \in Clickable(tasks, heap)
    /\ Step
    /\ edit' = [ id |-> heap[o].id, task |-> o ]
    /\ last' = Call("edit", heap[o].id, o, "None", {})
    /\ result' = <<>>
    /\ UNCHANGED <<heap, tasks>>

ButtonDelete(o) ==
    /\ o \in Clickable(tasks, heap)
    /\ DeleteTask(heap[o].id)

\* ---------------------------------------------------------------- specifications
Init ==
    /\ heap = <<>>
    /\ tasks = <<>>
    /\ edit = NoEdit
    /\ last = Call("init", 0, 0, "None", {})
    /\ result = <<>>
    /\ calls = 0

Ids == 1..MaxObjs

\* a caller of the Task constructor and of the TaskManager methods
Construct ==
    \E v \in TaskInputs, c \in BOOLEAN : NewTask(v[1], None, v[2], v[3], c)
Add == \E o \in Objs : AddTask(o)
Update == \E k \in Ids, o \in Objs : UpdateTask(k, o)
Delete == \E k \in Ids : DeleteTask(k)
Mark == \E k \in Ids : MarkTaskComplete(k)

\* the user of the page
FormAdd ==
    \E v \in FormInputs, p \in SliderValues : SubmitAdd(v[1], v[2], v[3], p)
FormSave ==
    \E v \in FormInputs, p \in SliderValues : SaveEdit(v[1], v[2], v[3], p)
ClickComplete == \E o \in Objs : ButtonComplete(o)
ClickEdit == \E o \in Objs : ButtonEdit(o)
ClickDelete == \E o \in Objs : ButtonDelete(o)

\* The store driven through its methods with any arguments
Next ==
    \/ Construct
    \/ Add
    \/ Update
    \/ Delete
    \/ Mark
    \/ GetAllTasks

Spec == Init /\ [][Next]_vars

\* The page of main(), every task constructed by one of its two forms; the
\* three store methods may also be called with any id and any such task
NextUI ==
    \/ FormAdd
    \/ FormSave
    \/ ClickComplete
    \/ ClickEdit
    \/ ClickDelete
    \/ GetAllTasks
    \/ Update
    \/ Delete
    \/ Mark

SpecUI == Init /\ [][NextUI]_vars

TypeOK ==
    /\ Len(heap) <= MaxObjs
    /\ \A i \in 1..Len(tasks) : tasks[i].val \in Objs

\* ---------------------------------------------------------------- properties
Stored == Range(Values(tasks))
StoreOps == { "add_task", "update_task", "delete_task", "mark_task_complete" }
Count(s, o) == Cardinality({ i \in 1..Len(s) : s[i] = o })

\* C1: every entry's task id equals the key it is stored under, so no two
\* entries hold tasks with the same id.
C1_IdIsKey ==
    /\ \A i \in 1..Len(tasks) : heap[tasks[i].val].id = tasks[i].key
    /\ \A i, j \in 1..Len(tasks) :
         heap[tasks[i].val].id = heap[tasks[j].val].id => i = j

\* C2: no Task is constructed by the add form or the edit form, and so none is
\* stored, with a title that is empty after trimming.
C2_NoBlankTitle ==
    /\ \A o \in Objs : title_must_not_empty(heap[o].title)
    /\ \A o \in Stored : strip(heap[o].title) # <<>>

\* C3: no Task is constructed, and so none is stored, with a due_date earlier
\* than the current date.
C3_NoPastDueDate ==
    /\ \A o \in Objs : due_date_must_not_in_past(heap[o].due_date, today)
    /\ \A o \in Stored : heap[o].due_date >= today

\* C4: update_task(id, new_task) on a stored id returns True; afterwards the
\* entry under id has new_task's title, description, due_date, priority and
\* completed and the id `id`; the keys and every other entry are unchanged.
C4_UpdateReplaces ==
    [][ (last'.op = "update_task" /\ last'.key \in Keys(tasks)) =>
          LET k == last'.key
              o == last'.obj
              n == heap'[Get(tasks', k)] IN
          /\ last'.ret = "True"
          /\ Keys(tasks') = Keys(tasks)
          /\ n = [ heap[o] EXCEPT !.id = k ]
          /\ \A j \in Keys(tasks) \ {k} :
               /\ Get(tasks', j) = Get(tasks, j)
               /\ heap'[Get(tasks', j)] = heap[Get(tasks, j)] ]_vars

\* C5: update_task, delete_task and mark_task_complete with an id that is not
\* in the store return False and change neither the store, nor any task, nor
\* the task passed to update_task.
C5_AbsentIdNoOp ==
    [][ (last'.op \in { "update_task", "delete_task", "mark_task_complete" }
           /\ last'.key \notin Keys(tasks)) =>
          /\ last'.ret = "False"
          /\ tasks' = tasks
          /\ heap' = heap ]_vars

C5_Witness ==
    /\ last.op = "update_task"
    /\ last.ret = "False"
    /\ tasks # <<>>
    /\ last.obj \notin Stored
    /\ heap[last.obj].id # last.key

\* C6: delete_task(id) returns True exactly when id was stored, removes that
\* entry only, leaves every other entry and every task unchanged, and a second
\* delete_task(id) right after it returns False.
C6_DeleteOnlyThat ==
    [][ last'.op = "delete_task" =>
          LET k == last'.key IN
          /\ last'.ret = Str(k \in Keys(tasks))
          /\ Keys(tasks') = Keys(tasks) \ {k}
          /\ \A j \in Keys(tasks') : Get(tasks', j) = Get(tasks, j)
          /\ heap' = heap
          /\ (last.op = "delete_task" /\ last.key = k) => last'.ret = "False" ]_vars

C6_Witness ==
    /\ last.op = "delete_task"
    /\ last.ret = "True"
    /\ tasks # <<>>

\* C7: mark_task_complete(id) on a stored id returns True (the second call in
\* a row too), leaves completed true, and changes nothing but the completed
\* field of that one task: no other field, no other entry of the store.
C7_MarkOnlyThat ==
    [][ (last'.op = "mark_task_complete" /\ last'.key \in Keys(tasks)) =>
          LET k == last'.key IN
          /\ last'.ret = "True"
          /\ tasks' = tasks
          /\ heap'[Get(tasks, k)] = [ heap[Get(tasks, k)] EXCEPT !.completed = TRUE ]
          /\ \A j \in Keys(tasks) \ {k} : heap'[Get(tasks, j)] = heap[Get(tasks, j)] ]_vars

\* C8: get_all_tasks returns each stored task exactly once and nothing else,
\* in non-decreasing order of due_date, tasks with equal due_date in the
\* order of the store (so a repeated call returns the same order), and changes
\* neither the store nor any task.
C8_SortedListing ==
    [][ last'.op = "get_all_tasks" =>
          /\ tasks' = tasks
          /\ heap' = heap
          /\ Range(result') = Stored
          /\ \A o \in Stored : Count(result', o) = 1
          /\ \A i \in 1..(Len(result') - 1) :
               heap[result'[i]].due_date <= heap[result'[i + 1]].due_date
          /\ \A d \in { heap[o].due_date : o \in Objs } :
               SelectSeq(result', LAMBDA o : heap[o].due_date = d)
                 = SelectSeq(Values(tasks), LAMBDA o : heap[o].due_date = d) ]_vars

\* C9: a Task is constructed only with a priority in 1..5, no store operation
\* changes the priority of any task, and every stored task has a priority in
\* 1..5.
C9_PriorityInRange ==
    [][ /\ (last'.op = "Task" /\ last'.ret = "ok") =>
              heap'[last'.obj].priority \in 1..5
        /\ last'.op \in StoreOps =>
              \A o \in Objs : heap'[o].priority = heap[o].priority
        /\ \A o \in Range(Values(tasks')) : heap'[o].priority \in 1..5 ]_vars

C9_Witness ==
    /\ last.op = "Task"
    /\ last.ret = "ValidationError"
    /\ "priority" \in last.errs
    /\ tasks # <<>>

\* C10: an id that has been given out and is not (or no longer) a key of the
\* store never becomes a key again: not by update_task, mark_task_complete or
\* delete_task on it, not by adding a newly constructed task, not by saving an
\* edit form opened before the task was deleted.
C10_RemovedIsTerminal ==
    [][ \A k \in Objs : k \notin Keys(tasks) => k \notin Keys(tasks') ]_vars

C10_Witness ==
    /\ last.op = "save_edit"
    /\ last.ret = "False"
    /\ last.key \notin Keys(tasks)
    /\ last.key \in Objs
====
